---- MODULE Spec2Model ----
(***************************************************************************)
(* Model of the MySQL migration backend (storage/migration/mysql/mysql.go) *)
(* and of the migration engine that drives it.                             *)
(*                                                                         *)
(* The backend (Entity) is translated from mysql.go.  Each SQL statement   *)
(* the backend sends is one numbered backend call of an invocation; the    *)
(* input f of an engine operation names the call that the backend rejects  *)
(* (0: none).  A rejected statement has no effect on the table.            *)
(*                                                                         *)
(* The engine (package storage/migration: Up, Down, Status of a session)   *)
(* is not part of the sources at hand; EngineUp, EngineDown and            *)
(* EngineStatus follow its description in spec.md, section 4.3.            *)
(*                                                                         *)
(* The tracking table is the pair (rows, autoInc): the set of rows         *)
(* [id, name] and the AUTO_INCREMENT counter of the table, i.e. the id the *)
(* next INSERT receives.                                                   *)
(*                                                                         *)
(* The shared configuration (SetConfig, ResetConfig, Config under          *)
(* infoMutex) is a second state machine, ConfigSpec, over its own          *)
(* variables: goroutines take the lock, copy the struct field by field     *)
(* and release the lock, one step each.                                    *)
(***************************************************************************)
EXTENDS Integers, Sequences, FiniteSets, TLC

VARIABLES
    rows,       \* tracking table: set of [id, name]
    autoInc,    \* tracking table: AUTO_INCREMENT counter
    tableExists, \* whether the tracking table exists in the target database
    last,       \* the last engine invocation and what it did
    removed,    \* sequence keys whose migration files were deleted from the folder
    dbExists,   \* whether the target database exists on the server
    conns,      \* the connections opened so far: [withDB, open], in opening order
    con,        \* Configuration.New: the local con (index into conns, 0: none)
    sess,       \* the connection stored in the session's Entity (0: no session)
    bpc,        \* where Configuration.New and the session stand
    events,     \* the steps taken since Configuration.New began: [step, key, ok]
    rejected,   \* whether the server rejected a call it could have served
    info,       \* the package variable info
    writer,     \* infoMutex: the goroutine holding the write lock, 0 if none
    readers,    \* infoMutex: the goroutines holding the read lock
    pc,         \* per goroutine: where it stands in SetConfig, ResetConfig or Config
    arg,        \* per goroutine: the struct being stored by SetConfig or ResetConfig
    todo,       \* per goroutine: the fields of the struct copy still to be copied
    buf,        \* per goroutine: the return value of Config being built
    ret,        \* per goroutine: the value its last Config call returned
    written     \* the values handed to SetConfig so far and the empty one

bootVars == <<dbExists, conns, con, sess, bpc, events, rejected>>
dbVars == <<rows, autoInc, tableExists, last, removed,
            dbExists, conns, con, sess, bpc, events, rejected>>
cfgVars == <<info, writer, readers, pc, arg, todo, buf, ret, written>>
vars == <<rows, autoInc, tableExists, last, removed,
          dbExists, conns, con, sess, bpc, events, rejected,
          info, writer, readers, pc, arg, todo, buf, ret, written>>

(***************************************************************************)
(* Bounds                                                                  *)
(***************************************************************************)
NumMigrations == 3      \* size of the catalog
MaxID == 4              \* ids handed out stay <= MaxID
NumProcs == 2           \* goroutines using the shared configuration

(***************************************************************************)
(* Catalog: display names in sequence-key order (spec.md section 8).       *)
(***************************************************************************)
MigrationNames ==
    <<"001_users", "002_posts", "003_comments", "004_tags", "005_likes", "006_votes">>

Catalog == SubSeq(MigrationNames, 1, NumMigrations)

Keys == 1..NumMigrations

\* the script of migration k in direction dir, as handed to Migrate
Script(dir, k) == <<dir, Catalog[k]>>

\* sequence key of a recorded name; 0 for the empty name
Position(name) ==
    IF name = "" THEN 0 ELSE CHOOSE k \in Keys : Catalog[k] = name

Min(a, b) == IF a <= b THEN a ELSE b

(***************************************************************************)
(* Errors                                                                  *)
(***************************************************************************)
NoErr == "nil"
ErrNoRows == "sql.ErrNoRows"
ErrBackend == "backend error"
\* MySQL's answer to a statement on a table that does not exist (error 1146)
ErrNoTable == "Error 1146: table doesn't exist"
\* MySQL's answer to CREATE TABLE for a table that exists (error 1050)
ErrConsistency == "applied migration is missing from the catalog"
ErrTableExists == "Error 1050: table already exists"

\* the call numbered n+1 is the one the backend rejects
Fails(n, f) == n + 1 = f

(***************************************************************************)
(* SQL statements of the backend on the tracking table                     *)
(*   db = [exists, rows, autoInc]                                          *)
(***************************************************************************)
MaxRowID(rs) ==
    IF rs = {} THEN 0
    ELSE CHOOSE m \in {r.id : r \in rs} : \A r \in rs : r.id <= m

\* INSERT INTO migration (name) VALUES (?)
\* id is AUTO_INCREMENT and PRIMARY KEY, name is UNIQUE.
ExecInsert(db, name, fail) ==
    IF fail THEN [db |-> db, err |-> ErrBackend]
    ELSE IF ~db.exists THEN [db |-> db, err |-> ErrNoTable]
    ELSE IF \E r \in db.rows : r.name = name \/ r.id = db.autoInc
    THEN [db |-> db, err |-> ErrBackend]
    ELSE [db |-> [db EXCEPT !.rows = @ \cup {[id |-> db.autoInc, name |-> name]},
                            !.autoInc = @ + 1],
          err |-> NoErr]

\* DELETE FROM migration LIMIT 1: the WHERE clause is lost, the oldest row goes
ExecDeleteNoWhere(db, name, fail) ==
    IF fail
    THEN [db |-> db, err |-> ErrBackend]
    ELSE [db |-> [db EXCEPT !.rows =
                     {r \in db.rows : \E q \in db.rows : q.id < r.id}],
          err |-> NoErr]

\* DELETE FROM migration WHERE id = ? LIMIT 1, bound to the name: no row matches
ExecDeleteWrongColumn(db, name, fail) ==
    [db |-> db, err |-> IF fail THEN ErrBackend ELSE NoErr]

\* DELETE FROM migration WHERE name = ? LIMIT 1
ExecDelete(db, name, fail) ==
    IF fail THEN [db |-> db, err |-> ErrBackend]
    ELSE IF ~db.exists THEN [db |-> db, err |-> ErrNoTable]
    ELSE [db |-> [db EXCEPT !.rows = {r \in db.rows : r.name # name}],
          err |-> NoErr]

\* SELECT * FROM migration ORDER BY id LIMIT 1: the DESC is lost
GetLastAscending(db, fail) ==
    IF fail THEN [ID |-> 0, Name |-> "", err |-> ErrBackend]
    ELSE IF db.rows = {} THEN [ID |-> 0, Name |-> "", err |-> ErrNoRows]
    ELSE LET r == CHOOSE x \in db.rows : \A y \in db.rows : x.id <= y.id
         IN  [ID |-> r.id, Name |-> r.name, err |-> NoErr]

\* SELECT * FROM migration ORDER BY id DESC LIMIT 1, scanned into a zero Entity
GetLast(db, fail) ==
    IF fail THEN [ID |-> 0, Name |-> "", err |-> ErrBackend]
    ELSE IF ~db.exists THEN [ID |-> 0, Name |-> "", err |-> ErrNoTable]
    ELSE IF db.rows = {} THEN [ID |-> 0, Name |-> "", err |-> ErrNoRows]
    ELSE LET r == CHOOSE x \in db.rows : \A y \in db.rows : y.id <= x.id
         IN  [ID |-> r.id, Name |-> r.name, err |-> NoErr]

\* ALTER TABLE migration AUTO_INCREMENT = v
\* MySQL never lowers the counter to a value in use: a value not above the
\* greatest id of the table leaves the counter at that id + 1.
ExecAlter(db, v, fail) ==
    IF fail THEN [db |-> db, err |-> ErrBackend]
    ELSE IF ~db.exists THEN [db |-> db, err |-> ErrNoTable]
    ELSE [db |-> [db EXCEPT !.autoInc =
                     IF v <= MaxRowID(db.rows) THEN MaxRowID(db.rows) + 1 ELSE v],
          err |-> NoErr]

(***************************************************************************)
(* Entity: the backend operations.  n is the number of backend calls the   *)
(* invocation has issued so far, f the call that is rejected.              *)
(***************************************************************************)
\* TableExist that wraps whatever went wrong into one error
TableExistOneError(db, n, f) ==
    [err |-> IF Fails(n, f) \/ ~db.exists THEN ErrBackend ELSE NoErr, n |-> n + 1]

\* SELECT 1 FROM migration LIMIT 1
TableExist(db, n, f) ==
    [err |-> IF Fails(n, f) THEN ErrBackend
             ELSE IF ~db.exists THEN ErrNoTable
             ELSE NoErr,
     n |-> n + 1]

\* CreateTable whose statement creates nothing
CreateTableNoEffect(db, n, f) ==
    [db |-> db, err |-> IF Fails(n, f) THEN ErrBackend ELSE NoErr, n |-> n + 1]

\* CREATE TABLE migration (id ... AUTO_INCREMENT, name ..., created_at ...)
CreateTable(db, n, f) ==
    IF Fails(n, f) THEN [db |-> db, err |-> ErrBackend, n |-> n + 1]
    ELSE IF db.exists THEN [db |-> db, err |-> ErrTableExists, n |-> n + 1]
    ELSE [db |-> [exists |-> TRUE, rows |-> {}, autoInc |-> 1],
          err |-> NoErr, n |-> n + 1]

\* Status reading the oldest row instead of the latest
StatusOldest(db, n, f) ==
    LET g == GetLastAscending(db, Fails(n, f))
    IN  [name |-> g.Name,
         err |-> IF g.err = ErrNoRows THEN NoErr ELSE g.err,
         n |-> n + 1]

\* Status without the sql.ErrNoRows case
StatusNoRowsIsError(db, n, f) ==
    LET g == GetLast(db, Fails(n, f))
    IN  [name |-> g.Name, err |-> g.err, n |-> n + 1]

\* Status that drops the error of the query
StatusDropsError(db, n, f) ==
    LET g == GetLast(db, Fails(n, f))
    IN  [name |-> g.Name, err |-> NoErr, n |-> n + 1]

Status(db, n, f) ==
    LET g == GetLast(db, Fails(n, f))
    IN  [name |-> g.Name,
         err |-> IF g.err = ErrNoRows THEN NoErr ELSE g.err,
         n |-> n + 1]

\* statusID reading the oldest row instead of the latest
statusIDOldest(db, n, f) ==
    LET g == GetLastAscending(db, Fails(n, f))
    IN  [ID |-> g.ID, err |-> g.err, n |-> n + 1]

statusID(db, n, f) ==
    LET g == GetLast(db, Fails(n, f))
    IN  [ID |-> g.ID, err |-> g.err, n |-> n + 1]

\* Migrate that sends the query once more when it was rejected
MigrateRetries(qry, n, f) ==
    IF Fails(n, f)
    THEN [err |-> IF Fails(n + 1, f) THEN ErrBackend ELSE NoErr, n |-> n + 2]
    ELSE [err |-> NoErr, n |-> n + 1]

\* Migrate that drops the error of the query
MigrateDropsError(qry, n, f) ==
    [err |-> NoErr, n |-> n + 1]

Migrate(qry, n, f) ==
    [err |-> IF Fails(n, f) THEN ErrBackend ELSE NoErr, n |-> n + 1]

RecordUp(db, name, n, f) ==
    LET e == ExecInsert(db, name, Fails(n, f))
    IN  [db |-> e.db, err |-> e.err, n |-> n + 1]

\* RecordDown that takes every error of the lookup for "no rows"
RecordDownIgnoresLookupError(db, name, n, f) ==
    LET d == ExecDelete(db, name, Fails(n, f))
    IN  IF d.err # NoErr
        THEN [db |-> d.db, err |-> d.err, n |-> n + 1, nextID |-> 0]
        ELSE LET s == statusID(d.db, n + 1, f)
                 nextID == IF s.err # NoErr THEN 1 ELSE s.ID
                 a == ExecAlter(d.db, nextID, Fails(s.n, f))
             IN  [db |-> a.db, err |-> a.err, n |-> s.n + 1, nextID |-> nextID]

\* RecordDown without the renumbering
RecordDownNoRenumber(db, name, n, f) ==
    LET d == ExecDelete(db, name, Fails(n, f))
    IN  [db |-> d.db, err |-> d.err, n |-> n + 1, nextID |-> 0]

RecordDown(db, name, n, f) ==
    LET d == ExecDelete(db, name, Fails(n, f))
    IN  IF d.err # NoErr
        THEN [db |-> d.db, err |-> d.err, n |-> n + 1, nextID |-> 0]
        ELSE LET s == statusID(d.db, n + 1, f)
                 nextID == IF s.err = ErrNoRows THEN 1 ELSE s.ID
             IN  IF s.err # ErrNoRows /\ s.err # NoErr
                 THEN [db |-> d.db, err |-> s.err, n |-> s.n, nextID |-> 0]
                 ELSE LET a == ExecAlter(d.db, nextID, Fails(s.n, f))
                      IN  [db |-> a.db, err |-> a.err, n |-> s.n + 1,
                           nextID |-> nextID]

(***************************************************************************)
(* Engine (spec.md 4.3).  An invocation threads                            *)
(*   st = [db, n, err, log]                                                *)
(* where log lists the backend operations called, in call order.           *)
(***************************************************************************)
Entry(call, key, err, v) == [call |-> call, key |-> key, err |-> err, arg |-> v]

RECURSIVE UpLoop(_, _, _, _)
UpLoop(st, k, hi, f) ==
    IF k > hi THEN st
    ELSE LET m == Migrate(Script("up", k), st.n, f)
             lm == Append(st.log, Entry("MigrateUp", k, m.err, 0))
         IN  IF m.err # NoErr
             THEN [st EXCEPT !.n = m.n, !.err = m.err, !.log = lm]
             ELSE LET r == RecordUp(st.db, Catalog[k], m.n, f)
                      lr == Append(lm, Entry("RecordUp", k, r.err, 0))
                      nx == [db |-> r.db, n |-> r.n, err |-> r.err, log |-> lr]
                  IN  IF r.err # NoErr THEN nx ELSE UpLoop(nx, k + 1, hi, f)

RECURSIVE DownLoop(_, _, _, _)
DownLoop(st, k, lo, f) ==
    IF k < lo THEN st
    ELSE LET m == Migrate(Script("down", k), st.n, f)
             lm == Append(st.log, Entry("MigrateDown", k, m.err, 0))
         IN  IF m.err # NoErr
             THEN [st EXCEPT !.n = m.n, !.err = m.err, !.log = lm]
             ELSE LET r == RecordDown(st.db, Catalog[k], m.n, f)
                      lr == Append(lm, Entry("RecordDown", k, r.err, r.nextID))
                      nx == [db |-> r.db, n |-> r.n, err |-> r.err, log |-> lr]
                  IN  IF r.err # NoErr THEN nx ELSE DownLoop(nx, k - 1, lo, f)

\* Up(steps|all): the catalog migrations after the last applied one, ascending
\* the catalog holds the file of that name ("" is no migration applied)
InCatalog(name) ==
    name = "" \/ \E k \in Keys \ removed : Catalog[k] = name

EngineUp(db, all, steps, f) ==
    LET s == Status(db, 0, f)
        st == [db |-> db, n |-> s.n, err |-> s.err,
               log |-> <<Entry("Status", 0, s.err, 0)>>]
        p == Position(s.name)
        hi == IF all THEN NumMigrations ELSE Min(NumMigrations, p + steps)
    IN  IF s.err # NoErr THEN st
        ELSE IF ~InCatalog(s.name) THEN [st EXCEPT !.err = ErrConsistency]
        ELSE UpLoop(st, p + 1, hi, f)

\* Down(steps|all): the applied migrations from the most recent backward
EngineDown(db, all, steps, f) ==
    LET s == Status(db, 0, f)
        st == [db |-> db, n |-> s.n, err |-> s.err,
               log |-> <<Entry("Status", 0, s.err, 0)>>]
        p == Position(s.name)
        lo == IF all THEN 1 ELSE IF steps >= p THEN 1 ELSE p - steps + 1
    IN  IF s.err # NoErr THEN st ELSE DownLoop(st, p, lo, f)

\* Status(): the backend's last applied name
EngineStatus(db, f) ==
    LET s == Status(db, 0, f)
    IN  IF s.err = NoErr /\ ~InCatalog(s.name)
        THEN [s EXCEPT !.err = ErrConsistency]
        ELSE s

\* the first operation of a session: create the tracking table if TableExist
\* reports it absent, give up on any other error
EnsureTable(db, f) ==
    LET t == TableExist(db, 0, f)
        lt == <<Entry("TableExist", 0, t.err, 0)>>
    IN  IF t.err = NoErr THEN [db |-> db, n |-> t.n, err |-> NoErr, log |-> lt]
        ELSE IF t.err = ErrNoTable
        THEN LET c == CreateTable(db, t.n, f)
             IN  [db |-> c.db, n |-> c.n, err |-> c.err,
                  log |-> Append(lt, Entry("CreateTable", 0, c.err, 0))]
        ELSE [db |-> db, n |-> t.n, err |-> t.err, log |-> lt]

\* Up(steps|all) as the first operation of a session
FirstEngineUp(db, all, steps, f) ==
    LET e == EnsureTable(db, f)
    IN  IF e.err # NoErr THEN e
        ELSE LET r == EngineUp(e.db, all, steps, IF f > e.n THEN f - e.n ELSE 0)
             IN  [db |-> r.db, n |-> e.n + r.n, err |-> r.err, log |-> e.log \o r.log]

(***************************************************************************)
(* State machine of one session                                            *)
(***************************************************************************)
CurDB == [exists |-> tableExists, rows |-> rows, autoInc |-> autoInc]

\* a backend call of an invocation that may be rejected (0: none)
MaxCalls == 1 + 4 * NumMigrations
FailPoints == 0..MaxCalls
StepCounts == 1..NumMigrations

\* what the next invocation remembers of this one
Summary(l) ==
    IF l.op = "Up" /\ l.all /\ l.err = NoErr THEN "UpAllDone"
    ELSE IF l.op = "Down" /\ l.err = NoErr /\ Len(l.log) > 1 THEN "RolledBack"
    ELSE "other"

\* the recorded names in the order of their identifiers
RECURSIVE NamesByID(_)
NamesByID(rs) ==
    IF rs = {} THEN <<>>
    ELSE LET r == CHOOSE x \in rs : \A y \in rs : x.id <= y.id
         IN  <<r.name>> \o NamesByID(rs \ {r})

\* what a caller observes of the tracking state
Observable(db) == [names |-> NamesByID(db.rows), status |-> EngineStatus(db, 0).name]

NoChain == [stage |-> 0, obs |-> [names |-> <<>>, status |-> ""]]

\* progress through Up(1); Down(1); Up(1), each without failure and acting on
\* one migration: stage 1 and 2 keep what was observable after the first Up(1)
NextChain(prev, op, all, steps, f, r) ==
    LET one == ~all /\ steps = 1 /\ f = 0 /\ r.err = NoErr /\ Len(r.log) = 3
    IN  IF op = "Up" /\ one
        THEN IF prev.stage = 2 THEN [stage |-> 3, obs |-> prev.obs]
             ELSE [stage |-> 1, obs |-> Observable(r.db)]
        ELSE IF op = "Down" /\ one /\ prev.stage = 1
             THEN [stage |-> 2, obs |-> prev.obs]
             ELSE NoChain

NoCall ==
    [op |-> "none", all |-> FALSE, steps |-> 0, f |-> 0, pre |-> [exists |-> TRUE, rows |-> {}, autoInc |-> 1],
     err |-> NoErr, name |-> "", log |-> <<>>, calls |-> 0,
     prior |-> "other", chain |-> NoChain]

(***************************************************************************)
(* Shared configuration: database.Info by the two fields mysql.go uses     *)
(***************************************************************************)
Procs == 1..NumProcs
Fields == {"Database", "MigrationFolder"}

\* database.Info{}
EmptyInfo == [Database |-> "", MigrationFolder |-> ""]

\* configurations handed to SetConfig
InfoValues ==
    {[Database |-> "app", MigrationFolder |-> "migration/app"],
     [Database |-> "test", MigrationFolder |-> "migration/test"]}

NoReturn == [has |-> FALSE, val |-> EmptyInfo]

\* infoMutex.Lock() returns once no goroutine holds the lock
LockFree == writer = 0 /\ readers = {}

\* a read without the lock
NoRLock == TRUE

\* infoMutex.RLock() returns once no goroutine holds the write lock
RLockFree == writer = 0

DBInit ==
    /\ rows = {}
    /\ autoInc = 1
    /\ tableExists = TRUE
    /\ last = NoCall
    /\ removed = {}

\* a session that Configuration.New returned, on its one connection
SessionInit ==
    /\ dbExists = TRUE
    /\ conns = <<[withDB |-> TRUE, ok |-> TRUE, open |-> TRUE]>>
    /\ con = 1
    /\ sess = 1
    /\ bpc = "synced"
    /\ events = <<>>
    /\ rejected = FALSE

ConfigInit ==
    /\ info = EmptyInfo
    /\ writer = 0
    /\ readers = {}
    /\ pc = [p \in Procs |-> "idle"]
    /\ arg = [p \in Procs |-> EmptyInfo]
    /\ todo = [p \in Procs |-> {}]
    /\ buf = [p \in Procs |-> EmptyInfo]
    /\ ret = [p \in Procs |-> NoReturn]
    /\ written = {EmptyInfo}

Init == DBInit /\ SessionInit /\ ConfigInit

Up ==
    \E all \in BOOLEAN, f \in FailPoints :
      \E steps \in IF all THEN {0} ELSE StepCounts :
        LET r == EngineUp(CurDB, all, steps, f)
        IN  /\ f <= r.n
            /\ r.db.autoInc <= MaxID + 1
            /\ rows' = r.db.rows
            /\ autoInc' = r.db.autoInc
            /\ last' = [op |-> "Up", all |-> all, steps |-> steps, f |-> f,
                        pre |-> CurDB, err |-> r.err, name |-> "", log |-> r.log,
                        calls |-> r.n, prior |-> Summary(last),
                        chain |-> NextChain(last.chain, "Up", all, steps, f, r)]
            /\ UNCHANGED <<tableExists, removed>>
            /\ UNCHANGED bootVars
            /\ UNCHANGED cfgVars

Down ==
    \E all \in BOOLEAN, f \in FailPoints :
      \E steps \in IF all THEN {0} ELSE StepCounts :
        LET r == EngineDown(CurDB, all, steps, f)
        IN  /\ f <= r.n
            /\ rows' = r.db.rows
            /\ autoInc' = r.db.autoInc
            /\ last' = [op |-> "Down", all |-> all, steps |-> steps, f |-> f,
                        pre |-> CurDB, err |-> r.err, name |-> "", log |-> r.log,
                        calls |-> r.n, prior |-> Summary(last),
                        chain |-> NextChain(last.chain, "Down", all, steps, f, r)]
            /\ UNCHANGED <<tableExists, removed>>
            /\ UNCHANGED bootVars
            /\ UNCHANGED cfgVars

GetStatus ==
    \E f \in 0..1 :
        LET r == EngineStatus(CurDB, f)
        IN  /\ last' = [op |-> "Status", all |-> FALSE, steps |-> 0, f |-> f,
                        pre |-> CurDB, err |-> r.err, name |-> r.name,
                        log |-> <<Entry("Status", 0, r.err, 0)>>,
                        calls |-> r.n, prior |-> Summary(last), chain |-> NoChain]
            /\ UNCHANGED <<rows, autoInc>>
            /\ UNCHANGED <<tableExists, removed>>
            /\ UNCHANGED bootVars
            /\ UNCHANGED cfgVars

Next == Up \/ Down \/ GetStatus

Spec == Init /\ [][Next]_vars

(***************************************************************************)
(* A session whose migration folder loses files of applied migrations      *)
(***************************************************************************)
\* the file of an applied migration is deleted from the migration folder
RemoveFile ==
    \E k \in {j \in Keys : Catalog[j] \in {r.name : r \in rows}} \ removed :
        /\ removed' = removed \cup {k}
        /\ last' = NoCall
        /\ UNCHANGED <<rows, autoInc, tableExists>>
        /\ UNCHANGED bootVars
        /\ UNCHANGED cfgVars

DriftNext == RemoveFile \/ Up \/ GetStatus

DriftSpec == Init /\ [][DriftNext]_vars

(***************************************************************************)
(* Bootstrap: Configuration.New step by step, then the first Up of the     *)
(* session it returns.  database.Info.Connect and Create belong to the     *)
(* driver package, which is not part of the sources at hand: a connection  *)
(* attempt succeeds when the server serves it and, with the database       *)
(* selected, the database exists; as New's comment on its first Close      *)
(* says, a failed attempt still hands back a connection that is active.    *)
(***************************************************************************)
ConnectOK(withDB, fail) == ~fail /\ (withDB => dbExists)

Event(step, key, ok) == [step |-> step, key |-> key, ok |-> ok]

LogEvents(log) ==
    [i \in 1..Len(log) |-> Event(log[i].call, log[i].key, log[i].err = NoErr)]

\* the rows of the first n catalog migrations, recorded without gaps
PrefixRows(n) == {[id |-> k, name |-> Catalog[k]] : k \in 1..n}

BootInit ==
    /\ dbExists \in BOOLEAN
    /\ tableExists \in (IF dbExists THEN BOOLEAN ELSE {FALSE})
    /\ \E n \in 0..NumMigrations :
          /\ (~tableExists => n = 0)
          /\ rows = PrefixRows(n)
          /\ autoInc = n + 1
    /\ last = NoCall
    /\ removed = {}
    /\ conns = <<>>
    /\ con = 0
    /\ sess = 0
    /\ bpc = "connect"
    /\ events = <<>>
    /\ rejected = FALSE
    /\ ConfigInit

\* con, err := i.Connect(true)
NewConnect ==
    \E fail \in BOOLEAN :
        /\ bpc = "connect"
        /\ conns' = Append(conns, [withDB |-> TRUE, ok |-> ConnectOK(TRUE, fail), open |-> TRUE])
        /\ con' = Len(conns) + 1
        /\ events' = Append(events, Event("Connect(true)", 0, ConnectOK(TRUE, fail)))
        /\ rejected' = (rejected \/ fail)
        /\ bpc' = IF ConnectOK(TRUE, fail) THEN "store" ELSE "closeFailed"
        /\ UNCHANGED <<rows, autoInc, tableExists, last, removed, dbExists, sess>>
        /\ UNCHANGED cfgVars

\* if err != nil { con.Close()
NewCloseFailed ==
    /\ bpc = "closeFailed"
    /\ conns' = [conns EXCEPT ![con].open = FALSE]
    /\ events' = Append(events, Event("Close", 0, TRUE))
    /\ bpc' = "connectNoDB"
    /\ UNCHANGED <<rows, autoInc, tableExists, last, removed, dbExists, con, sess, rejected>>
    /\ UNCHANGED cfgVars

\* con, err = i.Connect(false); if err != nil { return mig, err }
NewConnectNoDB ==
    \E fail \in BOOLEAN :
        /\ bpc = "connectNoDB"
        /\ conns' = Append(conns, [withDB |-> FALSE, ok |-> ConnectOK(FALSE, fail), open |-> TRUE])
        /\ con' = Len(conns) + 1
        /\ events' = Append(events, Event("Connect(false)", 0, ConnectOK(FALSE, fail)))
        /\ rejected' = (rejected \/ fail)
        /\ bpc' = IF ConnectOK(FALSE, fail) THEN "create" ELSE "failed"
        /\ UNCHANGED <<rows, autoInc, tableExists, last, removed, dbExists, sess>>
        /\ UNCHANGED cfgVars

\* New without the return after a failed Create
NewCreateIgnoresError ==
    \E fail \in BOOLEAN :
        /\ bpc = "create"
        /\ dbExists' = (dbExists \/ ~fail)
        /\ events' = Append(events, Event("Create", 0, ~fail))
        /\ rejected' = (rejected \/ fail)
        /\ bpc' = "closeNoDB"
        /\ UNCHANGED <<rows, autoInc, tableExists, last, removed, conns, con, sess>>
        /\ UNCHANGED cfgVars

\* err = i.Create(con); if err != nil { return mig, err }
NewCreate ==
    \E fail \in BOOLEAN :
        /\ bpc = "create"
        /\ dbExists' = (dbExists \/ ~fail)
        /\ events' = Append(events, Event("Create", 0, ~fail))
        /\ rejected' = (rejected \/ fail)
        /\ bpc' = IF fail THEN "failed" ELSE "closeNoDB"
        /\ UNCHANGED <<rows, autoInc, tableExists, last, removed, conns, con, sess>>
        /\ UNCHANGED cfgVars

\* con.Close()
NewCloseNoDB ==
    /\ bpc = "closeNoDB"
    /\ conns' = [conns EXCEPT ![con].open = FALSE]
    /\ events' = Append(events, Event("Close", 0, TRUE))
    /\ bpc' = "reconnect"
    /\ UNCHANGED <<rows, autoInc, tableExists, last, removed, dbExists, con, sess, rejected>>
    /\ UNCHANGED cfgVars

\* con, err = i.Connect(true); if err != nil { return mig, err }
NewReconnect ==
    \E fail \in BOOLEAN :
        /\ bpc = "reconnect"
        /\ conns' = Append(conns, [withDB |-> TRUE, ok |-> ConnectOK(TRUE, fail), open |-> TRUE])
        /\ con' = Len(conns) + 1
        /\ events' = Append(events, Event("Connect(true)", 0, ConnectOK(TRUE, fail)))
        /\ rejected' = (rejected \/ fail)
        /\ bpc' = IF ConnectOK(TRUE, fail) THEN "store" ELSE "failed"
        /\ UNCHANGED <<rows, autoInc, tableExists, last, removed, dbExists, sess>>
        /\ UNCHANGED cfgVars

\* mi.sql = con; return migration.New(mi, folder)
NewStore ==
    /\ bpc = "store"
    /\ sess' = con
    /\ bpc' = "session"
    /\ UNCHANGED <<rows, autoInc, tableExists, last, removed, dbExists, conns, con,
                   events, rejected>>
    /\ UNCHANGED cfgVars

\* the first operation of the session: Up(steps|all)
SessionUp ==
    /\ bpc = "session"
    /\ \E all \in BOOLEAN, f \in 0..(MaxCalls + 2) :
        \E steps \in IF all THEN {0} ELSE StepCounts :
        \E r \in {FirstEngineUp(CurDB, all, steps, f)} :
            /\ f <= r.n
            /\ r.db.autoInc <= MaxID + 1
            /\ rows' = r.db.rows
            /\ autoInc' = r.db.autoInc
            /\ tableExists' = r.db.exists
            /\ last' = [op |-> "Up", all |-> all, steps |-> steps, f |-> f,
                        pre |-> CurDB, err |-> r.err, name |-> "", log |-> r.log,
                        calls |-> r.n, prior |-> "other", chain |-> NoChain]
            /\ events' = events \o LogEvents(r.log)
            /\ rejected' = (rejected \/ f # 0)
            /\ bpc' = "done"
            /\ UNCHANGED <<removed, dbExists, conns, con, sess>>
            /\ UNCHANGED cfgVars

\* CreateTable() called on the session's Entity
CallCreateTable ==
    \E f \in 0..1 :
        LET c == CreateTable(CurDB, 0, f)
        IN  /\ bpc = "done"
            /\ rows' = c.db.rows
            /\ autoInc' = c.db.autoInc
            /\ tableExists' = c.db.exists
            /\ last' = [op |-> "CreateTable", all |-> FALSE, steps |-> 0, f |-> f,
                        pre |-> CurDB, err |-> c.err, name |-> "",
                        log |-> <<Entry("CreateTable", 0, c.err, 0)>>,
                        calls |-> c.n, prior |-> Summary(last), chain |-> NoChain]
            /\ UNCHANGED <<removed, dbExists, conns, con, sess, bpc, events, rejected>>
            /\ UNCHANGED cfgVars

\* the program's own steps: New runs to its return, the caller then calls Up
BootRun ==
    \/ NewConnect
    \/ NewCloseFailed
    \/ NewConnectNoDB
    \/ NewCreate
    \/ NewCloseNoDB
    \/ NewReconnect
    \/ NewStore
    \/ SessionUp

BootNext == BootRun \/ CallCreateTable

\* New and the Up that follows are sequential code: they keep running
BootSpec == BootInit /\ [][BootNext]_vars /\ WF_vars(BootRun)

(***************************************************************************)
(* State machine of the shared configuration                               *)
(***************************************************************************)
\* SetConfig(i): infoMutex.Lock()
SetConfigLock ==
    \E p \in Procs, i \in InfoValues :
        /\ pc[p] = "idle"
        /\ LockFree
        /\ writer' = p
        /\ arg' = [arg EXCEPT ![p] = i]
        /\ todo' = [todo EXCEPT ![p] = Fields]
        /\ written' = written \cup {i}
        /\ pc' = [pc EXCEPT ![p] = "store"]
        /\ UNCHANGED <<info, readers, buf, ret>>
        /\ UNCHANGED dbVars

\* ResetConfig(): infoMutex.Lock()
ResetConfigLock ==
    \E p \in Procs :
        /\ pc[p] = "idle"
        /\ LockFree
        /\ writer' = p
        /\ arg' = [arg EXCEPT ![p] = EmptyInfo]
        /\ todo' = [todo EXCEPT ![p] = Fields]
        /\ pc' = [pc EXCEPT ![p] = "store"]
        /\ UNCHANGED <<info, readers, buf, ret, written>>
        /\ UNCHANGED dbVars

\* info = i and info = database.Info{}: one field of the struct copy
StoreField ==
    \E p \in Procs, fld \in Fields :
        /\ pc[p] = "store"
        /\ fld \in todo[p]
        /\ info' = [info EXCEPT ![fld] = arg[p][fld]]
        /\ todo' = [todo EXCEPT ![p] = @ \ {fld}]
        /\ UNCHANGED <<writer, readers, pc, arg, buf, ret, written>>
        /\ UNCHANGED dbVars

\* infoMutex.Unlock()
Unlock ==
    \E p \in Procs :
        /\ pc[p] = "store"
        /\ todo[p] = {}
        /\ writer' = IF writer = p THEN 0 ELSE writer
        /\ pc' = [pc EXCEPT ![p] = "idle"]
        /\ UNCHANGED <<info, readers, arg, todo, buf, ret, written>>
        /\ UNCHANGED dbVars

\* Config(): infoMutex.RLock()
ConfigRLock ==
    \E p \in Procs :
        /\ pc[p] = "idle"
        /\ RLockFree
        /\ readers' = readers \cup {p}
        /\ todo' = [todo EXCEPT ![p] = Fields]
        /\ pc' = [pc EXCEPT ![p] = "load"]
        /\ UNCHANGED <<info, writer, arg, buf, ret, written>>
        /\ UNCHANGED dbVars

\* return info: one field of the copy into the return value
LoadField ==
    \E p \in Procs, fld \in Fields :
        /\ pc[p] = "load"
        /\ fld \in todo[p]
        /\ buf' = [buf EXCEPT ![p] = [@ EXCEPT ![fld] = info[fld]]]
        /\ todo' = [todo EXCEPT ![p] = @ \ {fld}]
        /\ UNCHANGED <<info, writer, readers, pc, arg, ret, written>>
        /\ UNCHANGED dbVars

\* the deferred infoMutex.RUnlock(), and the caller receives the copy
ConfigReturn ==
    \E p \in Procs :
        /\ pc[p] = "load"
        /\ todo[p] = {}
        /\ readers' = readers \ {p}
        /\ ret' = [ret EXCEPT ![p] = [has |-> TRUE, val |-> buf[p]]]
        /\ pc' = [pc EXCEPT ![p] = "idle"]
        /\ UNCHANGED <<info, writer, arg, todo, buf, written>>
        /\ UNCHANGED dbVars

ConfigNext ==
    \/ SetConfigLock
    \/ ResetConfigLock
    \/ StoreField
    \/ Unlock
    \/ ConfigRLock
    \/ LoadField
    \/ ConfigReturn

ConfigSpec == Init /\ [][ConfigNext]_vars

(***************************************************************************)
(* Vocabulary of the properties                                            *)
(***************************************************************************)
Names(rs) == {r.name : r \in rs}

\* sequence keys of the recorded migrations
Recorded(rs) == {k \in Keys : Catalog[k] \in Names(rs)}

NameAt(k) == IF k = 0 THEN "" ELSE Catalog[k]

IsMigrate(e) == e.call \in {"MigrateUp", "MigrateDown"}
IsRecord(e) == e.call \in {"RecordUp", "RecordDown"}

\* the scripts executed by the last invocation, in execution order
Executed == SelectSeq(last.log, IsMigrate)
\* the record operations called by the last invocation, in call order
RecordCalls == SelectSeq(last.log, IsRecord)

LastEntry == last.log[Len(last.log)]

\* number of migrations recorded when the last invocation began
PreCount == Cardinality(last.pre.rows)

\* what a Status() call answers in the current state
StatusNow == EngineStatus(CurDB, 0)

(***************************************************************************)
(* C1: in every reachable state the recorded names are names of the        *)
(* catalog and form a prefix of it in sequence order: when migration k is  *)
(* recorded, every migration with a smaller key is recorded too.           *)
(***************************************************************************)
C1_PrefixConsistent ==
    /\ Names(rows) \subseteq {Catalog[k] : k \in Keys}
    /\ \A k \in Keys : k \in Recorded(rows) => \A j \in 1..(k - 1) : j \in Recorded(rows)

\* a Down that stopped at a failing step after rolling back part of its batch
C1_Witness ==
    /\ last.op = "Down" /\ last.err # NoErr
    /\ PreCount = NumMigrations
    /\ Cardinality(rows) \in 1..(NumMigrations - 1)

(***************************************************************************)
(* C2: an Up executes the up-scripts of the migrations that follow the     *)
(* recorded ones, one after the other in increasing key order, and calls   *)
(* RecordUp in that order; a Down executes the down-scripts of the         *)
(* recorded migrations in decreasing key order from the most recent one    *)
(* and calls RecordDown in that order.  Up(all) and Down(all) that meet no *)
(* failure go through all of them.                                         *)
(***************************************************************************)
C2_ExecutionOrder ==
    /\ last.op = "Up" =>
          /\ \A i \in 1..Len(Executed) :
                Executed[i].call = "MigrateUp" /\ Executed[i].key = PreCount + i
          /\ \A i \in 1..Len(RecordCalls) :
                RecordCalls[i].call = "RecordUp" /\ RecordCalls[i].key = PreCount + i
          /\ Len(RecordCalls) \in {Len(Executed) - 1, Len(Executed)}
          /\ (last.all /\ last.f = 0) => Len(Executed) = NumMigrations - PreCount
    /\ last.op = "Down" =>
          /\ \A i \in 1..Len(Executed) :
                Executed[i].call = "MigrateDown" /\ Executed[i].key = PreCount - i + 1
          /\ \A i \in 1..Len(RecordCalls) :
                RecordCalls[i].call = "RecordDown" /\ RecordCalls[i].key = PreCount - i + 1
          /\ Len(RecordCalls) \in {Len(Executed) - 1, Len(Executed)}
          /\ (last.all /\ last.f = 0) => Len(Executed) = PreCount

\* a Down(all) over the whole catalog, after which nothing is recorded
C2_Witness ==
    /\ last.op = "Down" /\ last.all /\ last.f = 0
    /\ PreCount = NumMigrations
    /\ Len(Executed) = NumMigrations
    /\ rows = {}

(***************************************************************************)
(* C3: an Up that finds every catalog migration recorded, and a Down that  *)
(* finds the tracking table empty, execute no script, leave the table as   *)
(* it is and return no error (the backend answering the status query).  So *)
(* does an Up(all) that follows an Up(all) which returned no error.        *)
(***************************************************************************)
NothingDone ==
    /\ last.err = NoErr
    /\ Executed = <<>> /\ RecordCalls = <<>>
    /\ rows = last.pre.rows /\ autoInc = last.pre.autoInc

C3_NothingPendingIsNoOp ==
    /\ (last.op = "Up" /\ last.f = 0 /\ Recorded(last.pre.rows) = Keys) => NothingDone
    /\ (last.op = "Down" /\ last.f = 0 /\ last.pre.rows = {}) => NothingDone
    /\ (last.op = "Up" /\ last.f = 0 /\ last.all /\ last.prior = "UpAllDone") => NothingDone

\* the second of two Up(all) in succession
C3_Witness ==
    /\ last.op = "Up" /\ last.all /\ last.f = 0
    /\ last.prior = "UpAllDone"
    /\ PreCount = NumMigrations
    /\ Executed = <<>>

(***************************************************************************)
(* C4: when the backend rejects the Migrate or the RecordUp call of        *)
(* migration i during an Up, that call is the last one of the invocation,  *)
(* Up returns the error, exactly the migrations 1..i-1 are recorded, and   *)
(* Status() then answers the name of migration i-1 (empty for i = 1).      *)
(***************************************************************************)
\* calls of an Up: 1 is the status query, 2j and 2j+1 are Migrate and RecordUp
\* of the j-th pending migration
UpFailingKey == PreCount + (last.f \div 2)

C4_UpStopsAtFailure ==
    (last.op = "Up" /\ last.f >= 2) =>
        /\ last.err = ErrBackend
        /\ LastEntry.err = ErrBackend
        /\ LastEntry.key = UpFailingKey
        /\ LastEntry.call = (IF last.f % 2 = 0 THEN "MigrateUp" ELSE "RecordUp")
        /\ \A i \in 1..(Len(last.log) - 1) : last.log[i].err = NoErr
        /\ Recorded(rows) = 1..(UpFailingKey - 1)
        /\ StatusNow.name = NameAt(UpFailingKey - 1)
        /\ StatusNow.err = NoErr

\* an Up whose second migration's script is rejected
C4_Witness ==
    /\ last.op = "Up" /\ last.f = 4
    /\ last.pre.rows = {}
    /\ LastEntry.call = "MigrateUp" /\ LastEntry.key = 2
    /\ Names(rows) = {Catalog[1]}

(***************************************************************************)
(* C5: an Up that follows a Down which returned no error and rolled back   *)
(* at least one migration gives the first migration it records the         *)
(* identifier of the latest remaining row + 1, and no two rows share an    *)
(* identifier.                                                             *)
(***************************************************************************)
NewRows == rows \ last.pre.rows

C5_NextIdentifierAfterRollback ==
    (/\ last.op = "Up"
     /\ last.prior = "RolledBack"
     /\ last.pre.rows # {}
     /\ PreCount < NumMigrations /\ last.f = 0) =>
        /\ NewRows # {}
        /\ \E r \in NewRows :
              /\ r.name = Catalog[PreCount + 1]
              /\ r.id = MaxRowID(last.pre.rows) + 1
        /\ Cardinality({r.id : r \in rows}) = Cardinality(rows)

\* the catalog's migrations were recorded, all but the first were rolled back in
\* one Down, and the Up that follows records the second migration again
C5_Witness ==
    /\ last.op = "Up" /\ last.f = 0
    /\ last.prior = "RolledBack"
    /\ PreCount = 1
    /\ \E r \in rows : r.name = Catalog[2] /\ r.id = MaxRowID(last.pre.rows) + 1

(***************************************************************************)
(* C6 as stated: after a successful RecordDown the AUTO_INCREMENT counter  *)
(* equals max(identifier of the latest remaining row, 1).                  *)
(***************************************************************************)
Max(a, b) == IF a >= b THEN a ELSE b

DownSucceeded == last.op = "Down" /\ last.err = NoErr /\ RecordCalls # <<>>

C6_CounterIsLatestID ==
    DownSucceeded => autoInc = Max(MaxRowID(rows), 1)

(***************************************************************************)
(* C6, amended: a successful RecordDown(name) deletes the row of name and  *)
(* then asks for AUTO_INCREMENT = max(identifier of the latest remaining   *)
(* row, 1); the counter of the table is afterwards that row's identifier   *)
(* + 1, and 1 when no row remains.                                         *)
(***************************************************************************)
C6_RenumberAfterDelete ==
    DownSucceeded =>
        /\ \A i \in 1..Len(RecordCalls) : Catalog[RecordCalls[i].key] \notin Names(rows)
        /\ RecordCalls[Len(RecordCalls)].arg = Max(MaxRowID(rows), 1)
        /\ autoInc = MaxRowID(rows) + 1
        /\ rows = {} => autoInc = 1

\* a Down(1) that leaves rows behind, and the counter one above the latest id
C6_Witness ==
    /\ DownSucceeded /\ Len(RecordCalls) = 1
    /\ rows # {}
    /\ RecordCalls[1].arg = MaxRowID(rows)
    /\ autoInc = MaxRowID(rows) + 1

(***************************************************************************)
(* C7: Status() answers the name of the tracking row with the greatest     *)
(* identifier and no error; the empty name and no error when the table     *)
(* holds no row; the error of the backend when the query is rejected.      *)
(***************************************************************************)
C7_StatusIsLatestRow ==
    last.op = "Status" =>
        /\ (last.f = 0 /\ rows = {}) => (last.name = "" /\ last.err = NoErr)
        /\ (last.f = 0 /\ rows # {}) =>
              /\ last.err = NoErr
              /\ \E r \in rows : r.name = last.name /\ \A q \in rows : q.id <= r.id
        /\ last.f = 1 => last.err = ErrBackend
        /\ rows = last.pre.rows /\ autoInc = last.pre.autoInc

\* Status() on a table whose latest row does not carry the identifier of its
\* position: a gap was left behind
C7_Witness ==
    /\ last.op = "Status" /\ last.f = 0
    /\ Cardinality(rows) = 2
    /\ last.name = Catalog[2]
    /\ \E r \in rows : r.name = last.name /\ r.id > 2

(***************************************************************************)
(* C8: from n recorded migrations, a Down(k) that meets no failure         *)
(* executes the down-scripts of the min(k, n) most recent migrations, the  *)
(* most recent first, removes their rows and leaves the other rows as they *)
(* were; Status() then answers the name of migration n - k, the empty name *)
(* when k >= n.                                                            *)
(***************************************************************************)
RollbackCount == IF last.all THEN PreCount ELSE Min(last.steps, PreCount)

C8_DownRollsBackMostRecent ==
    (last.op = "Down" /\ last.f = 0) =>
        /\ last.err = NoErr
        /\ Len(Executed) = RollbackCount
        /\ \A i \in 1..Len(Executed) :
              Executed[i].call = "MigrateDown" /\ Executed[i].key = PreCount - i + 1
        /\ rows = {r \in last.pre.rows : Position(r.name) <= PreCount - RollbackCount}
        /\ StatusNow.name = NameAt(PreCount - RollbackCount)
        /\ StatusNow.err = NoErr

\* Down(1) after both migrations of spec.md's scenario were applied
C8_Witness ==
    /\ last.op = "Down" /\ ~last.all /\ last.steps = 1 /\ last.f = 0
    /\ Names(last.pre.rows) = {Catalog[1], Catalog[2]}
    /\ Names(rows) = {Catalog[1]}
    /\ StatusNow.name = Catalog[1]

(***************************************************************************)
(* C9: when a step of a Down fails (Migrate of the down-script or          *)
(* RecordDown returns an error), Down returns the error, the migrations it *)
(* rolled back before stay un-recorded, and the failing migration and all  *)
(* earlier ones stay recorded.                                             *)
(***************************************************************************)
C9_DownStopsAtFailure ==
    (last.op = "Down" /\ last.f >= 2) =>
        /\ last.err # NoErr
        /\ LastEntry.err # NoErr
        /\ rows = {r \in last.pre.rows : Position(r.name) <= LastEntry.key}

(***************************************************************************)
(* C10: every value a Config() call returns is a whole configuration: the  *)
(* value handed to a SetConfig that has begun or the empty configuration,  *)
(* never fields of two different writes; it is the value of info at the    *)
(* return; and what a goroutine was returned changes only by its own next  *)
(* Config() return, whatever is written later.                             *)
(***************************************************************************)
C10_ConfigReturnsWholeValue ==
    [][\A p \in Procs :
          /\ ret'[p].has => ret'[p].val \in written'
          /\ ret'[p] # ret[p] => (pc[p] = "load" /\ pc'[p] = "idle" /\ ret'[p].val = info)
          /\ (ret[p].has /\ info' # info) => ret'[p] = ret[p]]_vars

\* a goroutine holds a returned configuration while another one, writing a
\* different configuration, has stored one field of it
C10_Witness ==
    \E p \in Procs, q \in Procs :
        /\ ret[p].has /\ ret[p].val \in InfoValues
        /\ pc[q] = "store" /\ Cardinality(todo[q]) = 1
        /\ arg[q] # ret[p].val
        /\ info \notin written

(***************************************************************************)
(* C16: Up(1); Down(1); Up(1) in succession, none meeting a failure and    *)
(* each acting on the same migration M, leave the recorded names in their  *)
(* order and the answer of Status() as they were after the first Up(1).    *)
(***************************************************************************)
C16_UpDownUpIsUp ==
    last.chain.stage = 3 => Observable(CurDB) = last.chain.obs

\* the third invocation of the sequence has returned, M having a predecessor
C16_Witness ==
    /\ last.chain.stage = 3
    /\ last.op = "Up" /\ PreCount >= 1
    /\ Len(last.chain.obs.names) = PreCount + 1

(***************************************************************************)
(* C17: an Up or Down hands no migration's script to Migrate twice, calls  *)
(* nothing after a call that returned an error, and sends every Migrate    *)
(* and RecordUp to the backend once: a rejected call makes the invocation  *)
(* return an error instead of being repeated.                              *)
(***************************************************************************)
C17_AtMostOneAttempt ==
    last.op \in {"Up", "Down"} =>
        /\ \A i, j \in 1..Len(Executed) : i # j => Executed[i].key # Executed[j].key
        /\ \A i \in 1..(Len(last.log) - 1) : last.log[i].err = NoErr
        /\ last.f # 0 => (last.err # NoErr /\ LastEntry.err # NoErr)
        /\ last.op = "Up" => last.calls = Len(last.log)
        /\ last.op = "Down" =>
              last.calls <= 1 + Len(Executed) + 3 * Len(RecordCalls)

\* an Up(all) whose second script was rejected: it was sent once, the third
\* migration was not tried
C17_Witness ==
    /\ last.op = "Up" /\ last.all /\ last.f = 4
    /\ last.pre.rows = {}
    /\ Len(Executed) = 2 /\ last.calls = 4
    /\ LastEntry.call = "MigrateUp" /\ LastEntry.err = ErrBackend

(***************************************************************************)
(* C18: in every reachable state the identifiers of the tracking rows are  *)
(* pairwise distinct and grow with the sequence key of the recorded        *)
(* migration, and Status() answers the recorded migration of the greatest  *)
(* sequence key.                                                           *)
(***************************************************************************)
C18_IdentifiersFollowSequence ==
    /\ \A r, q \in rows : r # q => r.id # q.id
    /\ \A r, q \in rows : Position(r.name) < Position(q.name) => r.id < q.id
    /\ rows # {} =>
          /\ StatusNow.err = NoErr
          /\ \A r \in rows : Position(r.name) <= Position(StatusNow.name)
          /\ StatusNow.name \in Names(rows)

\* two rows, the second recorded again after a rollback that left a gap
C18_Witness ==
    /\ Cardinality(rows) = 2
    /\ \E r \in rows : r.name = Catalog[2] /\ r.id > 2
    /\ StatusNow.name = Catalog[2]

(***************************************************************************)
(* C19: when the DELETE of a RecordDown is rejected, RecordDown returns    *)
(* the error and leaves rows and counter as they were; when its lookup of  *)
(* the latest remaining row is rejected, RecordDown returns the error and  *)
(* leaves the counter as it was (the row is gone).                         *)
(***************************************************************************)
\* calls of a Down: 1 is the status query; the j-th rollback sends Migrate,
\* DELETE, the lookup and ALTER TABLE as calls 4j-2 .. 4j+1
DownFailingRound == ((last.f - 2) \div 4) + 1
DownFailingPhase == (last.f - 2) % 4
DownFailingKey == PreCount - DownFailingRound + 1

\* table and counter when the failing RecordDown began
RowsBeforeFailingRound == {r \in last.pre.rows : Position(r.name) <= DownFailingKey}
CounterBeforeFailingRound ==
    IF DownFailingRound = 1 THEN last.pre.autoInc
    ELSE MaxRowID(RowsBeforeFailingRound) + 1

C19_RecordDownFailureLeavesCounter ==
    (last.op = "Down" /\ last.f >= 2) =>
        /\ DownFailingPhase = 1 =>
              /\ last.err = ErrBackend
              /\ rows = RowsBeforeFailingRound
              /\ autoInc = CounterBeforeFailingRound
        /\ DownFailingPhase = 2 =>
              /\ last.err = ErrBackend
              /\ rows = {r \in RowsBeforeFailingRound : Position(r.name) < DownFailingKey}
              /\ autoInc = CounterBeforeFailingRound

\* the lookup of the second rollback of a Down was rejected: the row is gone,
\* the counter is the one the first rollback left
C19_Witness ==
    /\ last.op = "Down" /\ last.f = 8
    /\ last.err = ErrBackend
    /\ Cardinality(rows) = PreCount - 2
    /\ autoInc > MaxRowID(rows) + 1

(***************************************************************************)
(* Bootstrap claims, checked under BootSpec                                *)
(***************************************************************************)
IsNewStep(e) == e.step \in {"Connect(true)", "Close", "Connect(false)", "Create"}

\* what Configuration.New has done so far, in order
NewEvents == SelectSeq(events, IsNewStep)

\* the steps of New when the first connection fails and the recovery succeeds
RecoveryCycle ==
    <<"Connect(true)", "Close", "Connect(false)", "Create", "Close", "Connect(true)">>

\* C11: New attempts at most one recovery cycle (connect without database,
\* create, close, reconnect) and only after the first connection failed; a
\* failing connect-without-database, create or reconnect is the last thing
\* New does and New returns an error without a session; after a successful
\* first connection nothing else is attempted, in particular no create.
C11_SingleRecoveryCycle ==
    LET ne == NewEvents
    IN  /\ Len(ne) <= Len(RecoveryCycle)
        /\ \A i \in 1..Len(ne) : ne[i].step = RecoveryCycle[i]
        /\ (Len(ne) >= 1 /\ ne[1].ok) => Len(ne) = 1
        /\ \A i \in 2..Len(ne) :
              ~ne[i].ok => /\ i = Len(ne)
                           /\ bpc = "failed"
                           /\ sess = 0
        /\ (bpc = "failed") => (sess = 0 /\ ~ne[Len(ne)].ok)
        /\ (bpc \in {"session", "done"}) =>
              /\ sess = con
              /\ ne[Len(ne)].ok
              /\ Len(ne) \in {1, Len(RecoveryCycle)}

\* the create step failed and New returned
C11_Witness ==
    /\ bpc = "failed"
    /\ Len(NewEvents) = 4
    /\ ~NewEvents[4].ok

OpenConns == {i \in 1..Len(conns) : conns[i].ok /\ conns[i].open}

\* C20: when New has returned an error none of the connections it opened
\* successfully is open, and when it has returned a session exactly one is
\* open, the one the session holds.
C20_NoConnectionLeft ==
    /\ (bpc = "failed") => OpenConns = {}
    /\ (bpc \in {"session", "done"}) => OpenConns = {sess}

C13_CreateTableIdempotent ==
    (last.op = "CreateTable" /\ last.pre.exists /\ last.f = 0) =>
        /\ last.err = NoErr
        /\ rows = last.pre.rows
        /\ autoInc = last.pre.autoInc
        /\ tableExists

\* position in events of the first event of that step and key, 0 if none
EventIndex(step, key) ==
    LET is == {i \in 1..Len(events) : events[i].step = step /\ events[i].key = key}
    IN  IF is = {} THEN 0 ELSE CHOOSE i \in is : \A j \in is : i <= j

\* New created the database: it was absent when New began
DatabaseCreated == EventIndex("Create", 0) # 0

\* bootstrap and Up(all) have run, from nothing, with no step rejected
FirstUpAllDone ==
    /\ bpc = "done"
    /\ last.op = "Up"
    /\ last.all
    /\ ~last.pre.exists
    /\ DatabaseCreated
    /\ ~rejected

EverythingInPlace ==
    /\ dbExists
    /\ tableExists
    /\ Recorded(rows) = Keys
    /\ last.err = NoErr

\* database created, then table created, then the migrations in sequence order
CreatedInOrder ==
    /\ 0 < EventIndex("Create", 0)
    /\ EventIndex("Create", 0) < EventIndex("CreateTable", 0)
    /\ EventIndex("CreateTable", 0) < EventIndex("MigrateUp", 1)
    /\ \A k \in Keys :
          /\ 0 < EventIndex("MigrateUp", k)
          /\ EventIndex("MigrateUp", k) < EventIndex("RecordUp", k)
          /\ (k + 1 \in Keys) => EventIndex("RecordUp", k) < EventIndex("MigrateUp", k + 1)

\* C14: starting without database and table, bootstrap followed by the first
\* Up, with no step rejected, always gets to the end of that Up with database
\* and table in existence; when that Up is Up(all) every catalog migration is
\* recorded then, and the database was created before the table and the table
\* before the migrations, which ran in sequence order.
C14_FirstUpBuildsEverything ==
    /\ [](FirstUpAllDone => (EverythingInPlace /\ CreatedInOrder))
    /\ (bpc = "connect" /\ ~dbExists) ~>
          (rejected \/ (/\ bpc = "done"
                        /\ last.op = "Up"
                        /\ dbExists
                        /\ tableExists
                        /\ (last.all => Recorded(rows) = Keys)))

C14_Witness == FirstUpAllDone /\ Recorded(rows) = Keys

(***************************************************************************)
(* Catalog drift, checked under DriftSpec                                  *)
(***************************************************************************)
\* recorded migrations whose file was gone when the last invocation began
MissingApplied == Recorded(last.pre.rows) \cap removed

\* C15: when a recorded name is absent from the catalog, Status and Up that
\* are served by the backend return the consistency error, and Up executes
\* no script and leaves the tracking table as it was.
C15_MissingNameIsSurfaced ==
    (last.op \in {"Up", "Status"} /\ last.f = 0 /\ MissingApplied # {}) =>
        /\ last.err = ErrConsistency
        /\ (last.op = "Up") =>
              /\ Executed = <<>>
              /\ RecordCalls = <<>>
              /\ rows = last.pre.rows

==============================================================================
